---- MODULE Spec2Model ----
(***************************************************************************)
(* A model of pixie-discord's generation engine (AIEngine and GeminiModel, *)
(* core/ai-engine.ts), of the text path that calls it                      *)
(* (DiscordBot.handleMessage) and of the voice path (DiscordVoiceManager   *)
(* and the Deepgram VoiceProcessor).                                       *)
(*                                                                         *)
(* Granularity.  Node runs one macrotask to completion, microtasks         *)
(* included, before it takes the next event.  One action is therefore one  *)
(* event (a message, a command, a speaking event, a frame, the answer of   *)
(* an external service, a timer) together with everything the code does    *)
(* until every continuation it started is waiting for an external answer.  *)
(***************************************************************************)
EXTENDS Integers, Sequences, FiniteSets, TLC

(***************************************************************************)
(* Universes and bounds.  Texts (prompts, transcripts, replies) are         *)
(* sequences of words.                                                     *)
(***************************************************************************)
Users == {"alice", "bob"}
Types == {"gemini", "openai"}            \* AIModelType values used as registry keys
HandleIds == {1, 2}                      \* AIModel objects; 1 is the constructor's GeminiModel
CallIds == {1, 2}                        \* generateResponse activations that can be in flight
TurnIds == {1, 2}                        \* handleUserStoppedSpeaking activations in flight
Messages == {<<"hi">>}                   \* prompt texts of the text path
Replies == {<<"ok">>}                    \* texts the generation service returns
\* Reply texts for analyzeEmotion: no keyword, one, one in capitals, a tie in
\* either order, more hits for a later emotion, neutral ahead, and five and six
\* hits for the cap of the intensity
EmotionTexts ==
  {<<"the">>, <<"I", "am", "so", "happy", "today">>, <<"Happy">>,
   <<"sad", "happy">>, <<"joy", "sorry">>, <<"angry", "upset", "joy">>,
   <<"maybe", "sad", "sad", "perhaps", "unsure">>, <<"okay", "okay", "happy">>,
   <<"happy", "joy", "happy", "glad", "excited">>,
   <<"happy", "joy", "happy", "glad", "excited", "happy">>}
Transcripts == {<<>>, <<" ">>, <<"hello">>}  \* transcripts the transcription service sends: none, blank, a word
Frames == {<<0, 0, 0, 0>>, <<208, 7, 208, 7>>}  \* PCM frames, as their bytes: samples 0 0, 2000 2000
\* Frames for detectSpeech: empty, one sample (1000, 1001, -1000, -1001, -1),
\* two samples (1000 1001, 0 1414, 0 1415), and buffers with a byte left over
VadFrames ==
  {<<>>, <<232, 3>>, <<233, 3>>, <<24, 252>>, <<23, 252>>, <<255, 255>>,
   <<232, 3, 233, 3>>, <<0, 0, 134, 5>>, <<0, 0, 135, 5>>,
   <<0>>, <<233, 3, 0>>}
Delays == {300, 10000}                   \* ms by which the clock advances
Personas == {"pixie"}
NoHandle == 0                            \* null model / null client / no stream
NoPersona == "null"
NoConfig == -1                           \* a type without a configuration
MaxKeys == 2                             \* credentials of a configuration
MaxStarted == 2                          \* generateResponse calls started in one behaviour
MaxAttempts == 3                         \* the attempts counter of one call saturates here
MaxStreams == 3                          \* audio streams subscribed in one behaviour
MaxBuffer == 2                           \* chunks the audio buffer holds
MaxAdvances == 1                         \* clock advances in one behaviour
MaxWords == 1                            \* transcripts one turn receives
MaxHeard == 3                            \* frames one turn's vadStream receives
VoiceFrames == 1                         \* frames one turn receives where several turns run
MaxFinishes == 2                         \* the finish() counter of one turn saturates here
StartTime == 1000                        \* Date.now() when the model starts
maxHistoryPairs == 10
silenceThreshold == 500
speechRms == 1000
speechTimeout == 10000

VARIABLES
  models,               \* AIEngine.models: the registry, in insertion order
  backend,              \* per AIModel object: config (keys, current_key_index) and client
  activeModel,          \* AIEngine.activeModel: a handle, or NoHandle
  persona,              \* AIEngine.persona
  conversationHistory,  \* AIEngine.conversationHistory: user -> entries
  calls,                \* the activations of AIEngine.generateResponse
  started,              \* number of generateResponse calls started so far
  lastSwitch,           \* the last switchModel call: argument, what it returned
  lastInit,             \* the last AIEngine.initialize call: arguments, how it ended
  connection,           \* DiscordVoiceManager.connection: "none" or "ready"
  player,               \* DiscordVoiceManager.player: "none", "idle" or "playing"
  isListening,          \* DiscordVoiceManager.isListening
  speaking,             \* receiver.speaking: the users the receiver hears speaking
  activeStreams,        \* DiscordVoiceManager.activeStreams: user -> stream, or NoHandle
  nextStream,           \* the next stream object
  turns,                \* the activations of handleUserStoppedSpeaking
  audioBuffer,          \* VoiceProcessor.audioBuffer
  lastAudioTime,        \* VoiceProcessor.lastAudioTime
  isProcessing,         \* VoiceProcessor.isProcessing
  vadEnabled,           \* VoiceProcessor.vadEnabled
  now                   \* Date.now()

engineVars ==
  <<models, backend, activeModel, persona, conversationHistory, calls, started,
    lastSwitch, lastInit>>
managerVars ==
  <<connection, player, isListening, speaking, activeStreams, nextStream, turns>>
processorVars == <<audioBuffer, lastAudioTime, isProcessing, vadEnabled>>
voiceVars == <<managerVars, processorVars, now>>
vars == <<engineVars, voiceVars>>

Min(S) == CHOOSE x \in S : \A y \in S : x <= y
Max(S) == CHOOSE x \in S : \A y \in S : x >= y

(***************************************************************************)
(* GeminiModel                                                             *)
(***************************************************************************)
NewModel == [keys |-> 0, idx |-> 0, client |-> NoHandle, requests |-> 0, tokens |-> 0]

\* What the generation service throws: an Error with a message (a sequence of
\* words), or a value that is not an Error.
NoError == [isError |-> FALSE, message |-> <<>>]
QuotaError == [isError |-> TRUE, message |-> <<"Quota", "exceeded">>]
RateLimitError == [isError |-> TRUE, message |-> <<"Rate", "limit", "reached">>]
NetworkError == [isError |-> TRUE, message |-> <<"network", "error">>]
ThrownText == [isError |-> FALSE, message |-> <<"quota">>]
Errors == {QuotaError, RateLimitError, NetworkError, ThrownText}

\* String.prototype.toLowerCase, word by word
toLowerCase(message) ==
  [i \in 1..Len(message) |->
     CASE message[i] = "Quota" -> "quota"
       [] message[i] = "Rate" -> "rate"
       [] message[i] = "Happy" -> "happy"
       [] OTHER -> message[i]]

\* String.prototype.includes, on texts that are sequences of words
includes(message, part) ==
  \E i \in 1..(Len(message) - Len(part) + 1) :
     SubSeq(message, i, i + Len(part) - 1) = part

\* isRateLimitError, lines 58-63
isRateLimitError(error) ==
  IF error.isError
  THEN \/ includes(toLowerCase(error.message), <<"quota">>)
       \/ includes(toLowerCase(error.message), <<"rate", "limit">>)
  ELSE FALSE

(***************************************************************************)
(* GeminiModel.analyzeEmotion.  Texts are sequences of words and a keyword  *)
(* occurs where a word of the text equals it; the emoji keywords, which no  *)
(* word of the texts equals, are left out.  intensity is kept in fifths and *)
(* confidence in tenths.                                                    *)
(***************************************************************************)
emotions ==
  <<[emotion |-> "happy", keywords |-> <<"happy", "joy", "excited", "glad">>],
    [emotion |-> "sad", keywords |-> <<"sad", "sorry", "unfortunate", "regret">>],
    [emotion |-> "angry", keywords |-> <<"angry", "upset", "frustrated", "annoyed">>],
    [emotion |-> "confused", keywords |-> <<"confused", "unsure", "maybe", "perhaps">>],
    [emotion |-> "neutral", keywords |-> <<"neutral", "okay", "fine", "normal">>]>>

NoEmotion == [emotion |-> "none", intensity |-> 0, confidence |-> 0]

\* textLower.match(new RegExp(keyword, "g"))?.length || 0
RECURSIVE matches(_, _)
matches(textLower, keyword) ==
  IF textLower = <<>> THEN 0
  ELSE (IF Head(textLower) = keyword THEN 1 ELSE 0) + matches(Tail(textLower), keyword)

\* keywords.reduce((acc, keyword) => acc + matches, 0)
RECURSIVE reduce(_, _)
reduce(keywords, textLower) ==
  IF keywords = <<>> THEN 0
  ELSE reduce(SubSeq(keywords, 1, Len(keywords) - 1), textLower)
       + matches(textLower, keywords[Len(keywords)])

EmotionOf(maxEmotion, maxCount) ==
  [emotion |-> maxEmotion,
   intensity |-> IF maxCount < 5 THEN maxCount ELSE 5,     \* Math.min(maxCount / 5, 1)
   confidence |-> 7]                                       \* 0.7

\* A faulty variant: an emotion that only equals the best count replaces it
RECURSIVE EmotionLoop_LastWins(_, _, _, _)
EmotionLoop_LastWins(i, textLower, maxEmotion, maxCount) ==
  IF i > Len(emotions) THEN EmotionOf(maxEmotion, maxCount)
  ELSE LET count == reduce(emotions[i].keywords, textLower)
       IN  IF count >= maxCount /\ count > 0
           THEN EmotionLoop_LastWins(i + 1, textLower, emotions[i].emotion, count)
           ELSE EmotionLoop_LastWins(i + 1, textLower, maxEmotion, maxCount)

analyzeEmotion_LastWins(text) == EmotionLoop_LastWins(1, toLowerCase(text), "neutral", 0)

\* The for loop over Object.entries(emotions), lines 77-84, from entry i on
RECURSIVE EmotionLoop(_, _, _, _)
EmotionLoop(i, textLower, maxEmotion, maxCount) ==
  IF i > Len(emotions) THEN EmotionOf(maxEmotion, maxCount)
  ELSE LET count == reduce(emotions[i].keywords, textLower)
       IN  IF count > maxCount
           THEN EmotionLoop(i + 1, textLower, emotions[i].emotion, count)
           ELSE EmotionLoop(i + 1, textLower, maxEmotion, maxCount)

\* analyzeEmotion, lines 65-91
analyzeEmotion(text) == EmotionLoop(1, toLowerCase(text), "neutral", 0)

\* text.length: the characters of the words and of the blanks between them
RECURSIVE length(_)
length(text) ==
  IF text = <<>> THEN 0
  ELSE Len(Head(text)) + (IF Len(text) > 1 THEN 1 ELSE 0) + length(Tail(text))

\* lines 41-43: usage after a request that returned text
CountUsage(b, text) ==
  [b EXCEPT !.requests = @ + 1, !.tokens = @ + (length(text) + 3) \div 4]

\* A faulty variant: the cursor moves on without wrapping around
rotateApiKey_NoWrap(b) ==
  [b EXCEPT !.idx = b.idx + 1, !.client = b.idx + 2]

\* A faulty variant: the cursor moves on but the client is not rebuilt
rotateApiKey_KeepsClient(b) ==
  [b EXCEPT !.idx = (b.idx + 1) % b.keys]

\* rotateApiKey followed by initializeClient: the cursor moves on, the client is
\* rebuilt from the credential at the new cursor (clients are named by it, 1-based).
rotateApiKey(b) ==
  LET i == (b.idx + 1) % b.keys
  IN  [b EXCEPT !.idx = i, !.client = i + 1]

\* GeminiModel.initialize with a configuration of n credentials; n = 0 throws
\* before anything is assigned.
GeminiInitialize(b, n) ==
  IF n = 0 THEN b ELSE rotateApiKey([b EXCEPT !.keys = n, !.idx = 0])

isAvailable(h) == backend[h].client # NoHandle /\ backend[h].keys > 0

(***************************************************************************)
(* AIEngine: registry, initialization, persona, switch, history            *)
(***************************************************************************)
Registered == {models[i].type : i \in 1..Len(models)}

\* the position of type in the registry, or 0
ModelOf(type) ==
  IF type \in Registered
  THEN (CHOOSE i \in 1..Len(models) : models[i].type = type)
  ELSE 0

\* this.models.get(type)
HandleOf(type) == IF ModelOf(type) = 0 THEN NoHandle ELSE models[ModelOf(type)].handle

\* A faulty variant: the model registered becomes the active one
registerModel_Activates(type, h) ==
  /\ models' = IF type \in Registered
               THEN [models EXCEPT ![ModelOf(type)].handle = h]
               ELSE Append(models, [type |-> type, handle |-> h])
  /\ activeModel' = h
  /\ UNCHANGED <<backend, persona, conversationHistory, calls, started>>
  /\ UNCHANGED <<lastSwitch, lastInit>>
  /\ UNCHANGED voiceVars

\* registerModel: Map.set keeps the position of a key that is already present
registerModel(type, h) ==
  /\ models' = IF type \in Registered
               THEN [models EXCEPT ![ModelOf(type)].handle = h]
               ELSE Append(models, [type |-> type, handle |-> h])
  /\ UNCHANGED <<backend, activeModel, persona, conversationHistory, calls, started>>
  /\ UNCHANGED <<lastSwitch, lastInit>>
  /\ UNCHANGED voiceVars

\* The configurations handed to initialize: per type either no entry (NoConfig) or
\* the number of credentials of its ModelConfig (none, or MaxKeys of them).
ConfigChoices == {NoConfig, 0, MaxKeys}
Configured(config) == {t \in Registered : config[t] # NoConfig}

\* Every GeminiModel.initialize runs to its end when it is called (it awaits
\* nothing), so each configured model is initialized or has thrown before
\* Promise.all is awaited.
InitializedBackend(config) ==
  [h \in HandleIds |->
     IF \E t \in Configured(config) : HandleOf(t) = h
     THEN GeminiInitialize(backend[h], config[CHOOSE t \in Configured(config) : HandleOf(t) = h])
     ELSE backend[h]]

\* No initialize call yet
NoInit == [config |-> [t \in Types |-> NoConfig], default |-> "none", result |-> "none"]

\* A call of initialize as lastInit records it
InitCall(config, defaultModel, result) ==
  [config |-> config, default |-> defaultModel, result |-> result]

\* A faulty variant: the default model becomes active although an initialization
\* was rejected
initialize_IgnoresRejection(config, defaultModel) ==
  LET after == InitializedBackend(config)
      dflt == HandleOf(defaultModel)
      usable == dflt # NoHandle /\ after[dflt].client # NoHandle /\ after[dflt].keys > 0
  IN  /\ backend' = after
      /\ activeModel' = IF ~usable THEN activeModel ELSE dflt
      /\ lastInit' = InitCall(config, defaultModel,
                       IF \E t \in Configured(config) : config[t] = 0 THEN "InitFailed"
                       ELSE IF ~usable THEN "NoDefault" ELSE "ok")
      /\ UNCHANGED <<models, persona, conversationHistory, calls, started, lastSwitch>>
      /\ UNCHANGED voiceVars

\* A faulty variant: the default model becomes active without being asked whether
\* it is available
initialize_TrustsDefault(config, defaultModel) ==
  LET failed == \E t \in Configured(config) : config[t] = 0
      dflt == HandleOf(defaultModel)
  IN  /\ backend' = InitializedBackend(config)
      /\ activeModel' = IF failed THEN activeModel ELSE dflt
      /\ lastInit' = InitCall(config, defaultModel, IF failed THEN "InitFailed" ELSE "ok")
      /\ UNCHANGED <<models, persona, conversationHistory, calls, started, lastSwitch>>
      /\ UNCHANGED voiceVars

\* AIEngine.initialize: one rejection rejects the whole call ("Failed to
\* initialize AI models"); otherwise the default model must report available
\* (else "Default model ... is not available"), and becomes the active model.
initialize(config, defaultModel) ==
  LET failed == \E t \in Configured(config) : config[t] = 0
      after == InitializedBackend(config)
      dflt == HandleOf(defaultModel)
      usable == dflt # NoHandle /\ after[dflt].client # NoHandle /\ after[dflt].keys > 0
  IN  /\ backend' = after
      /\ activeModel' = IF failed \/ ~usable THEN activeModel ELSE dflt
      /\ lastInit' = InitCall(config, defaultModel,
                       IF failed THEN "InitFailed"
                       ELSE IF ~usable THEN "NoDefault" ELSE "ok")
      /\ UNCHANGED <<models, persona, conversationHistory, calls, started, lastSwitch>>
      /\ UNCHANGED voiceVars

setPersona(p) ==
  /\ persona' = p
  /\ UNCHANGED <<models, backend, activeModel, conversationHistory, calls, started>>
  /\ UNCHANGED <<lastSwitch, lastInit>>
  /\ UNCHANGED voiceVars

\* No switchModel call yet
NoSwitch == [type |-> "none", success |-> FALSE, at |-> 0]

\* A call of switchModel as lastSwitch records it: its argument, what it returned
\* and, for a switch that succeeded and has not been superseded by a failover,
\* how many generateResponse calls had been started when it returned (at records
\* which calls were in flight then and is read by no operation).
SwitchCall(type, success) ==
  [type |-> type, success |-> success, at |-> IF success THEN started ELSE 0]

\* A faulty variant: a registered model becomes active without being asked
\* whether it is available
switchModel_Unchecked(type) ==
  LET h == HandleOf(type)
  IN  /\ activeModel' = IF h # NoHandle THEN h ELSE activeModel
      /\ lastSwitch' = SwitchCall(type, h # NoHandle /\ isAvailable(h))
      /\ UNCHANGED <<models, backend, persona, conversationHistory, calls, started>>
      /\ UNCHANGED lastInit
      /\ UNCHANGED voiceVars

switchModel(type) ==
  LET h == HandleOf(type)
      success == h # NoHandle /\ isAvailable(h)
  IN  /\ activeModel' = IF success THEN h ELSE activeModel
      /\ lastSwitch' = SwitchCall(type, success)
      /\ UNCHANGED <<models, backend, persona, conversationHistory, calls, started>>
      /\ UNCHANGED lastInit
      /\ UNCHANGED voiceVars

\* getActiveModel: the name of the active model object (every AIModel of the
\* program is a GeminiModel, whose name is "gemini"), or "none"
getActiveModel == IF activeModel = NoHandle THEN "none" ELSE "gemini"

\* A faulty variant: the whole Map is cleared
clearHistory_All(u) ==
  /\ conversationHistory' = [q \in Users |-> <<>>]
  /\ UNCHANGED <<models, backend, activeModel, persona, calls, started>>
  /\ UNCHANGED <<lastSwitch, lastInit>>
  /\ UNCHANGED voiceVars

clearHistory(u) ==
  /\ conversationHistory' = [conversationHistory EXCEPT ![u] = <<>>]
  /\ UNCHANGED <<models, backend, activeModel, persona, calls, started>>
  /\ UNCHANGED <<lastSwitch, lastInit>>
  /\ UNCHANGED voiceVars

\* An entry of a history or of a context.  call is the start number of the
\* generateResponse call that wrote the entry (0 for the persona preamble): it
\* records where an entry comes from and is read by no operation.
Entry(role, text, n) == [role |-> role, text |-> text, call |-> n]

\* lines 180-181: the two persona strings every context starts with
Preamble(p) == <<Entry("Persona", <<p>>, 0), Entry("Style", <<p>>, 0)>>

\* A faulty variant: the response is pushed before the message
updateContext_AssistantFirst(history, message, response, n) ==
  LET pushed == history \o <<Entry("Assistant", response, n), Entry("User", message, n)>>
  IN  IF Len(pushed) > maxHistoryPairs * 2
      THEN SubSeq(pushed, 3, Len(pushed))
      ELSE pushed

\* A faulty variant: splice(0, 1): only the oldest entry is dropped
updateContext_DropsOne(history, message, response, n) ==
  LET pushed == history \o <<Entry("User", message, n), Entry("Assistant", response, n)>>
  IN  IF Len(pushed) > maxHistoryPairs * 2
      THEN SubSeq(pushed, 2, Len(pushed))
      ELSE pushed

\* updateContext: push the pair, then drop the two oldest entries when the
\* history is longer than 2 * maxHistoryPairs.
updateContext(history, message, response, n) ==
  LET pushed == history \o <<Entry("User", message, n), Entry("Assistant", response, n)>>
  IN  IF Len(pushed) > maxHistoryPairs * 2
      THEN SubSeq(pushed, 3, Len(pushed))
      ELSE pushed

(***************************************************************************)
(* AIEngine.generateResponse.  An activation is a record: origin is 0 for   *)
(* the text path and the turn for the voice path; cur is the model whose   *)
(* generateResponse it awaits and pos that model's place in the fallback   *)
(* loop; attempts counts the requests GeminiModel.generateResponse has     *)
(* sent for cur, invoked lists the models the engine has called, error is  *)
(* what the service threw last at a request of the call, seq is the call's *)
(* start number.                                                          *)
(***************************************************************************)
IdleCall ==
  [pc |-> "idle", origin |-> 0, user |-> "", message |-> <<>>, context |-> <<>>,
   cur |-> NoHandle, pos |-> 0, attempts |-> 0, invoked |-> <<>>,
   error |-> NoError, result |-> "none", reply |-> <<>>, seq |-> 0,
   emotional_response |-> NoEmotion]

\* The activation has returned or thrown: its locals are gone, what the caller
\* gets (and which models were called, in order) stays.  A returned AIResponse
\* carries the emotional_response of its text (GeminiModel lines 44-48).
Finished(call, result, text) ==
  [call EXCEPT !.pc = "done", !.result = result, !.reply = text,
               !.context = <<>>, !.pos = 0, !.attempts = 0,
               !.emotional_response = IF result = "ok" THEN analyzeEmotion(text)
                                      ELSE NoEmotion]

Pending(c) == calls[c].pc \in {"primary", "fallback"}

\* The fallback loop, lines 193-206, entered or resumed after position from: the
\* next registered model that is not the active one (as it is now) and reports
\* available.
NextFallback(from) ==
  LET S == {i \in (from + 1)..Len(models) :
              models[i].handle # activeModel /\ isAvailable(models[i].handle)}
  IN  IF S = {} THEN 0 ELSE Min(S)

\* The call after the model it was waiting for has thrown: it waits for the next
\* fallback model, or throws "All AI models failed" when the loop runs out.
Fallback(call, from) ==
  LET i == NextFallback(from)
  IN  IF i = 0
      THEN Finished(call, "AllFailed", <<>>)
      ELSE [call EXCEPT !.pc = "fallback", !.pos = i, !.cur = models[i].handle,
                        !.attempts = 1, !.invoked = Append(@, models[i].handle)]

\* A faulty variant: the context is the history alone, without the persona strings
StartedCall_NoPreamble(org, u, msg) ==
  LET base == [IdleCall EXCEPT !.origin = org, !.user = u, !.message = msg,
                               !.seq = started + 1]
      sent == [base EXCEPT !.pc = "primary", !.context = conversationHistory[u],
                           !.cur = activeModel, !.attempts = 1, !.invoked = <<activeModel>>]
  IN  IF activeModel = NoHandle
      THEN Finished(base, "NoActiveModel", <<>>)
      ELSE IF persona = NoPersona
      THEN Finished(base, "NoPersona", <<>>)
      ELSE IF backend[activeModel].client = NoHandle \/ backend[activeModel].keys = 0
      THEN Fallback([sent EXCEPT !.attempts = 0], 0)
      ELSE sent

\* generateResponse up to its first await (line 186): the activation it leaves.
StartedCall(org, u, msg) ==
  LET base == [IdleCall EXCEPT !.origin = org, !.user = u, !.message = msg,
                               !.seq = started + 1]
      ctx == Preamble(persona) \o conversationHistory[u]
      sent == [base EXCEPT !.pc = "primary", !.context = ctx, !.cur = activeModel,
                           !.attempts = 1, !.invoked = <<activeModel>>]
  IN  IF activeModel = NoHandle
      THEN Finished(base, "NoActiveModel", <<>>)
      ELSE IF persona = NoPersona
      THEN Finished(base, "NoPersona", <<>>)
      ELSE IF backend[activeModel].client = NoHandle \/ backend[activeModel].keys = 0
      THEN Fallback([sent EXCEPT !.attempts = 0], 0)       \* "Model not initialized"
      ELSE sent

\* A faulty variant: the working fallback model is not made the active model
ActiveAfterSuccess_NotSticky(c) == activeModel

\* line 198: a fallback model that answered becomes the active model
ActiveAfterSuccess(c) ==
  IF calls[c].pc = "fallback" THEN calls[c].cur ELSE activeModel

\* A faulty variant: prompt and reply are handed to updateContext in the wrong order
HistoryAfterSuccess_Swapped(c, text) ==
  [conversationHistory EXCEPT ![calls[c].user] =
     updateContext(@, text, calls[c].message, calls[c].seq)]

\* lines 187 and 199: the history of the call's user after its answer
HistoryAfterSuccess(c, text) ==
  [conversationHistory EXCEPT ![calls[c].user] =
     updateContext(@, calls[c].message, text, calls[c].seq)]

\* lines 189-207: the activation after the awaited model has thrown
CallAfterError(c) ==
  Fallback(calls[c], IF calls[c].pc = "primary" THEN 0 ELSE calls[c].pos)

FreeCall == Min({c \in CallIds : calls[c].pc = "idle"})
HasFreeCall == \E c \in CallIds : calls[c].pc = "idle"

\* A finished activation of the text path stays until handleMessage has replied;
\* one of the voice path is consumed by its turn in the same step.
Kept(call) == IF call.pc = "done" /\ call.origin # 0 THEN IdleCall ELSE call

(***************************************************************************)
(* VoiceProcessor (Deepgram) and DiscordVoiceManager                       *)
(***************************************************************************)
\* An activation of handleUserStoppedSpeaking.  Besides its locals it records
\* what passed between it and its surroundings: heard, the frames its stream has
\* delivered to its vadStream; sent, the frames given to deepgramLive.send;
\* finishCalls, the calls of deepgramLive.finish (counted up to MaxFinishes);
\* vad, whether its vadStream was given an error by its transform.
IdleTurn ==
  [pc |-> "idle", user |-> "", stream |-> NoHandle, hasReceivedData |-> FALSE,
   transcription |-> <<>>, dg |-> "closed", timer |-> FALSE, startTime |-> 0,
   heard |-> <<>>, sent |-> <<>>, finishCalls |-> 0, vad |-> "ok"]

InFlight(t) == turns[t].pc # "idle"
FreeTurn == Min({t \in TurnIds : turns[t].pc = "idle"})
HasFreeTurn == \E t \in TurnIds : turns[t].pc = "idle"

\* Buffer.readInt16LE(i): the two bytes at offset i (from 0) as a signed number
readInt16LE(f, i) ==
  LET u == f[i + 1] + 256 * f[i + 2]
  IN  IF u >= 32768 THEN u - 65536 ELSE u

\* readInt16LE(i) throws a RangeError unless i + 2 <= length; the loop of
\* detectSpeech reads at every even offset below length.
detectSpeechThrows(f) ==
  vadEnabled /\ \E i \in 0..(Len(f) - 1) : i % 2 = 0 /\ i + 2 > Len(f)

\* The sum of the loop, over the offsets 0, 2, ... at which a sample is read
RECURSIVE SumSquares(_)
SumSquares(f) ==
  IF Len(f) < 2 THEN 0
  ELSE readInt16LE(f, 0) * readInt16LE(f, 0) + SumSquares(SubSeq(f, 3, Len(f)))

\* A faulty variant: a frame at the threshold counts as speech
detectSpeech_AtThreshold(f) ==
  IF ~vadEnabled THEN TRUE
  ELSE Len(f) > 0 /\ 2 * SumSquares(f) >= speechRms * speechRms * Len(f)

\* detectSpeech, where it does not throw: rms = Math.sqrt(sum / (length / 2)) and
\* rms > 1000, which is sum / (length / 2) > 1000 * 1000, in whole numbers
\* 2 * sum > 1000 * 1000 * length; for an empty buffer rms is NaN and the
\* comparison false.
detectSpeech(f) ==
  IF ~vadEnabled THEN TRUE
  ELSE Len(f) > 0 /\ 2 * SumSquares(f) > speechRms * speechRms * Len(f)

\* transcription.trim(): the text without its leading and trailing blanks
Trim(text) ==
  LET inked == {i \in 1..Len(text) : text[i] # " "}
  IN  IF inked = {} THEN <<>> ELSE SubSeq(text, Min(inked), Max(inked))

\* The turn leaves processVoiceInteraction (its finally, lines 405-408) by an
\* exception, handleUserStoppedSpeaking logs it and its finally (line 228)
\* deletes the user's stream entry.
TurnAborts(t) ==
  /\ isProcessing' = FALSE
  /\ audioBuffer' = <<>>
  /\ activeStreams' = [activeStreams EXCEPT ![turns[t].user] = NoHandle]
  /\ turns' = [turns EXCEPT ![t] = IdleTurn]
  /\ UNCHANGED <<connection, player, isListening, speaking, nextStream, lastAudioTime, vadEnabled, now>>

\* The promise of processAudioStream is settled: the turn no longer looks at the
\* transcription connection or its timer.
Settled(turn, pc) ==
  [turn EXCEPT !.pc = pc, !.hasReceivedData = FALSE, !.transcription = <<>>,
               !.dg = "closed", !.timer = FALSE, !.startTime = 0,
               !.heard = <<>>, !.sent = <<>>, !.finishCalls = 0]

\* generateResponse has returned its reply to the turn: textToSpeech is awaited
TurnSynthesizes(t) ==
  /\ turns' = [turns EXCEPT ![t].pc = "tts"]
  /\ UNCHANGED <<connection, player, isListening, speaking, activeStreams, nextStream>>
  /\ UNCHANGED <<processorVars, now>>

\* A faulty variant: the turn goes on to synthesis whatever generateResponse did
TurnResumes_IgnoresFailure(call) ==
  IF call.origin = 0 \/ call.pc # "done"
  THEN UNCHANGED voiceVars
  ELSE TurnSynthesizes(call.origin)

\* What the step that leaves activation call behind does to the voice path.
TurnResumes(call) ==
  IF call.origin = 0 \/ call.pc # "done"
  THEN UNCHANGED voiceVars
  ELSE IF call.result = "ok"
  THEN TurnSynthesizes(call.origin)
  ELSE TurnAborts(call.origin)

(***************************************************************************)
(* The generation service answers the pending request of activation c.     *)
(***************************************************************************)
\* With text: GeminiModel.generateResponse lines 35-46, then AIEngine lines
\* 187-188 or 198-200.
ServiceSuccess(c, text) ==
  /\ Pending(c)
  /\ backend' = [backend EXCEPT ![calls[c].cur] = CountUsage(@, text)]
  /\ activeModel' = ActiveAfterSuccess(c)
  /\ conversationHistory' = HistoryAfterSuccess(c, text)
  /\ calls' = [calls EXCEPT ![c] = Kept([Finished(@, "ok", text) EXCEPT !.error = NoError])]
  /\ lastSwitch' = IF ActiveAfterSuccess(c) # activeModel
                   THEN [lastSwitch EXCEPT !.at = 0]
                   ELSE lastSwitch
  /\ UNCHANGED <<models, persona, started, lastInit>>
  /\ TurnResumes(Finished(calls[c], "ok", text))

\* With a quota / rate-limit error: lines 49-52, the cursor of the model is
\* rotated and GeminiModel.generateResponse calls itself.
RateLimited(c, error) ==
  /\ backend' = [backend EXCEPT ![calls[c].cur] = rotateApiKey(@)]
  /\ calls' = [calls EXCEPT ![c].attempts = IF @ < MaxAttempts THEN @ + 1 ELSE @,
                            ![c].error = error]
  /\ UNCHANGED <<models, activeModel, persona, conversationHistory, started>>
  /\ UNCHANGED <<lastSwitch, lastInit>>
  /\ UNCHANGED voiceVars

\* With any other error: line 54 rethrows, and the engine's catch (line 189) or
\* the loop's catch (line 201) goes on to the next model.
Rethrown(c, error) ==
  /\ calls' = [calls EXCEPT ![c] = Kept([CallAfterError(c) EXCEPT !.error = error])]
  /\ UNCHANGED <<models, backend, activeModel, persona, conversationHistory, started>>
  /\ UNCHANGED <<lastSwitch, lastInit>>
  /\ TurnResumes(CallAfterError(c))

\* A faulty variant: every error rotates the cursor and retries
ServiceThrows_AlwaysRetries(c, error) ==
  Pending(c) /\ RateLimited(c, error)

\* The request throws: the catch of GeminiModel.generateResponse (lines 47-55)
ServiceThrows(c, error) ==
  /\ Pending(c)
  /\ IF isRateLimitError(error) THEN RateLimited(c, error) ELSE Rethrown(c, error)

ServiceRateLimited(c) == ServiceThrows(c, QuotaError)

\* A faulty variant: line 198 hoisted above the await of line 197: the fallback model is
\* made active when it is tried, not when it has answered
ServiceError_SwitchesEarly(c) ==
  /\ Pending(c)
  /\ calls' = [calls EXCEPT ![c] = Kept(CallAfterError(c))]
  /\ activeModel' = IF CallAfterError(c).pc = "fallback" THEN CallAfterError(c).cur
                    ELSE activeModel
  /\ UNCHANGED <<models, backend, persona, conversationHistory, started>>
  /\ UNCHANGED <<lastSwitch, lastInit>>
  /\ TurnResumes(CallAfterError(c))

ServiceError(c) == ServiceThrows(c, NetworkError)

(***************************************************************************)
(* DiscordBot.handleMessage: a text message of a user (never a bot's, never *)
(* empty) goes straight to the engine; the handler replies when the call   *)
(* has returned or thrown.                                                 *)
(***************************************************************************)
handleMessage(u, msg) ==
  /\ HasFreeCall
  /\ started' = started + 1
  /\ calls' = [calls EXCEPT ![FreeCall] = StartedCall(0, u, msg)]
  /\ UNCHANGED <<models, backend, activeModel, persona, conversationHistory>>
  /\ UNCHANGED <<lastSwitch, lastInit>>
  /\ UNCHANGED voiceVars

handleMessageDone(c) ==
  /\ calls[c].pc = "done"
  /\ calls[c].origin = 0
  /\ calls' = [calls EXCEPT ![c] = IdleCall]
  /\ UNCHANGED <<models, backend, activeModel, persona, conversationHistory, started>>
  /\ UNCHANGED <<lastSwitch, lastInit>>
  /\ UNCHANGED voiceVars

(***************************************************************************)
(* The voice path: speaking events, frames, the transcription connection,  *)
(* synthesis and playback.                                                 *)
(***************************************************************************)
\* receiver.speaking emits "start" for a user it does not hear yet (lines
\* 150-153); handleUserSpeaking subscribes, decodes, and stores the stream under
\* the user, over whatever stream the user had.
handleUserSpeaking(u) ==
  /\ isListening
  /\ u \notin speaking
  /\ speaking' = speaking \cup {u}
  /\ IF connection = "none"
     THEN UNCHANGED <<activeStreams, nextStream>>
     ELSE /\ nextStream <= MaxStreams
          /\ activeStreams' = [activeStreams EXCEPT ![u] = nextStream]
          /\ nextStream' = nextStream + 1
  /\ UNCHANGED <<connection, player, isListening, turns>>
  /\ UNCHANGED <<processorVars, now>>
  /\ UNCHANGED engineVars

\* receiver.speaking emits "end" for a user it hears (lines 155-158);
\* handleUserStoppedSpeaking up to its first await: it returns when the user has
\* no stream, else processVoiceInteraction sets isProcessing, processAudioStream
\* opens the transcription connection, pipes the stream into a new vadStream and
\* arms the 10 s timer.
handleUserStoppedSpeaking(u) ==
  /\ isListening
  /\ u \in speaking
  /\ speaking' = speaking \ {u}
  /\ IF activeStreams[u] = NoHandle
     THEN UNCHANGED <<isProcessing, turns>>
     ELSE /\ HasFreeTurn
          /\ isProcessing' = TRUE
          /\ turns' = [turns EXCEPT ![FreeTurn] =
               [pc |-> "stt", user |-> u, stream |-> activeStreams[u],
                hasReceivedData |-> FALSE, transcription |-> <<>>, dg |-> "open",
                timer |-> TRUE, startTime |-> now,
                heard |-> <<>>, sent |-> <<>>, finishCalls |-> 0, vad |-> "ok"]]
  /\ UNCHANGED <<connection, player, isListening, activeStreams, nextStream>>
  /\ UNCHANGED <<audioBuffer, lastAudioTime, vadEnabled, now>>
  /\ UNCHANGED engineVars

\* A chunk of the buffer; from is the user whose stream delivered it (it records
\* where a chunk comes from and is read by no operation).
Chunk(f, u) == [data |-> f, timestamp |-> now, from |-> u]

\* deepgramLive.finish()
Finish(turn) ==
  [turn EXCEPT !.dg = IF @ = "open" THEN "finishing" ELSE @,
               !.finishCalls = IF @ < MaxFinishes THEN @ + 1 ELSE @]

\* A frame as heard and sent record it
Heard(f) == [data |-> f, timestamp |-> now]

\* The vadStream of turn t transforms frame f of its stream (lines 299-326).  The
\* pipe is never removed, so frames keep coming for as long as the turn lasts.
Frame(t, f) ==
  /\ InFlight(t)
  /\ turns[t].stream # NoHandle            \* the stream's connection has not been destroyed
  /\ turns[t].vad = "ok"                   \* an errored stream transforms nothing
  /\ Len(turns[t].heard) < MaxHeard
  /\ IF detectSpeechThrows(f)
     THEN /\ turns' = [turns EXCEPT ![t].heard = Append(@, Heard(f)),   \* catch: callback(error)
                                    ![t].vad = "errored"]
          /\ UNCHANGED <<audioBuffer, lastAudioTime>>
     ELSE IF detectSpeech(f)
     THEN /\ Len(audioBuffer) < MaxBuffer
          /\ lastAudioTime' = now
          /\ audioBuffer' = Append(audioBuffer, Chunk(f, turns[t].user))
          /\ turns' = [turns EXCEPT ![t].heard = Append(@, Heard(f)),
                                    ![t].sent = Append(@, Heard(f))]
     ELSE /\ turns' = IF now - lastAudioTime > silenceThreshold /\ Len(audioBuffer) > 0
                      THEN [turns EXCEPT ![t] = Finish([@ EXCEPT !.heard = Append(@, Heard(f))])]
                      ELSE [turns EXCEPT ![t].heard = Append(@, Heard(f))]
          /\ UNCHANGED <<audioBuffer, lastAudioTime>>
  /\ UNCHANGED <<connection, player, isListening, speaking, activeStreams, nextStream>>
  /\ UNCHANGED <<isProcessing, vadEnabled, now>>
  /\ UNCHANGED engineVars

\* The values the clock takes: at most MaxAdvances advances, one long at most.
ClockValues ==
  {StartTime + 300 * a + 10000 * b : a \in 0..MaxAdvances, b \in 0..1} \cap
  (StartTime..(StartTime + 10000 + 300 * (MaxAdvances - 1)))

Advance(d) ==
  /\ now + d \in ClockValues
  /\ now' = now + d
  /\ UNCHANGED <<managerVars, processorVars>>
  /\ UNCHANGED engineVars

\* LiveTranscriptionEvents.Transcript (lines 274-281)
Transcript(t, text) ==
  /\ turns[t].pc = "stt"
  /\ turns[t].dg # "closed"
  /\ turns[t].sent # <<>>                  \* the service transcribes audio it was sent
  /\ Len(turns[t].transcription) < 2 * MaxWords
  /\ turns' = IF Len(text) > 0
              THEN [turns EXCEPT ![t].hasReceivedData = TRUE,
                                 ![t].transcription = @ \o text \o <<" ">>]
              ELSE turns
  /\ UNCHANGED <<connection, player, isListening, speaking, activeStreams, nextStream>>
  /\ UNCHANGED <<processorVars, now>>
  /\ UNCHANGED engineVars

\* LiveTranscriptionEvents.Error (lines 283-286): the promise is rejected
DgError(t) ==
  /\ turns[t].pc = "stt"
  /\ turns[t].dg # "closed"
  /\ TurnAborts(t)
  /\ UNCHANGED engineVars

\* LiveTranscriptionEvents.Close (lines 288-295).  With a transcript the promise
\* resolves and the turn goes on, in the same step, into generateResponse
\* (discord-voice.ts lines 213-220); without data it is rejected; with data that
\* trims to nothing it stays pending.
DgClose(t) ==
  LET turn == turns[t]
      text == Trim(turn.transcription)
      call == StartedCall(t, turn.user, text)
  IN  /\ turn.pc = "stt"
      /\ turn.dg # "closed"
      /\ IF turn.hasReceivedData /\ text # <<>>
         THEN /\ HasFreeCall
              /\ started < MaxStarted
              /\ started' = started + 1
              /\ UNCHANGED <<models, backend, activeModel, persona, conversationHistory>>
              /\ UNCHANGED <<lastSwitch, lastInit>>
              /\ IF call.pc = "done"
                 THEN UNCHANGED calls /\ TurnAborts(t)
                 ELSE /\ calls' = [calls EXCEPT ![FreeCall] = call]
                      /\ turns' = [turns EXCEPT ![t] = Settled(@, "gen")]
                      /\ UNCHANGED <<connection, player, isListening, speaking, activeStreams, nextStream>>
                      /\ UNCHANGED <<processorVars, now>>
         ELSE IF ~turn.hasReceivedData
         THEN TurnAborts(t) /\ UNCHANGED engineVars
         ELSE /\ turns' = [turns EXCEPT ![t].dg = "closed"]
              /\ UNCHANGED <<connection, player, isListening, speaking, activeStreams, nextStream>>
              /\ UNCHANGED <<processorVars, now>>
              /\ UNCHANGED engineVars

\* The timer of processAudioStream (lines 332-337)
SpeechTimeout(t) ==
  /\ turns[t].pc = "stt"
  /\ turns[t].timer
  /\ now >= turns[t].startTime + speechTimeout
  /\ IF ~turns[t].hasReceivedData
     THEN TurnAborts(t)
     ELSE /\ turns' = [turns EXCEPT ![t].timer = FALSE]
          /\ UNCHANGED <<connection, player, isListening, speaking, activeStreams, nextStream>>
          /\ UNCHANGED <<processorVars, now>>
  /\ UNCHANGED engineVars

\* textToSpeech has returned the audio: the finally of processVoiceInteraction
\* runs, then playAudio (discord-voice.ts lines 235-253) starts the resource on
\* the player, or throws when there is no player.
TtsDone(t) ==
  /\ turns[t].pc = "tts"
  /\ isProcessing' = FALSE
  /\ audioBuffer' = <<>>
  /\ IF player = "none"
     THEN /\ activeStreams' = [activeStreams EXCEPT ![turns[t].user] = NoHandle]
          /\ turns' = [turns EXCEPT ![t] = IdleTurn]
          /\ UNCHANGED player
     ELSE /\ player' = "playing"
          /\ turns' = [turns EXCEPT ![t].pc = "play"]
          /\ UNCHANGED activeStreams
  /\ UNCHANGED <<connection, isListening, speaking, nextStream, lastAudioTime, vadEnabled, now>>
  /\ UNCHANGED engineVars

\* textToSpeech has thrown
TtsFailed(t) ==
  /\ turns[t].pc = "tts"
  /\ TurnAborts(t)
  /\ UNCHANGED engineVars

\* The player has become idle: every playAudio that waits for it returns, and the
\* finally of its handleUserStoppedSpeaking deletes the user's stream entry.
PlayerIdle ==
  /\ player = "playing"
  /\ player' = "idle"
  /\ turns' = [t \in TurnIds |-> IF turns[t].pc = "play" THEN IdleTurn ELSE turns[t]]
  /\ activeStreams' = [u \in Users |->
       IF \E t \in TurnIds : turns[t].pc = "play" /\ turns[t].user = u
       THEN NoHandle ELSE activeStreams[u]]
  /\ UNCHANGED <<connection, isListening, speaking, nextStream>>
  /\ UNCHANGED <<processorVars, now>>
  /\ UNCHANGED engineVars

\* leaveChannel (discord-voice.ts lines 70-89): stopListening forgets every
\* stream entry, the player is stopped and dropped, the connection destroyed.
\* The receiver's streams end with the connection (the turns in flight keep
\* their vadStream, which gets no more frames: stream becomes NoHandle), and a
\* playAudio that waits for the stopped player returns.  Nothing else of a turn
\* in flight, and nothing of the VoiceProcessor, is touched.
leaveChannel ==
  /\ connection # "none"
  /\ isListening' = FALSE
  /\ activeStreams' = [u \in Users |-> NoHandle]
  /\ player' = "none"
  /\ connection' = "none"
  /\ speaking' = {}
  /\ turns' = [t \in TurnIds |->
       IF turns[t].pc = "play" THEN IdleTurn
       ELSE IF InFlight(t) THEN [turns[t] EXCEPT !.stream = NoHandle]
       ELSE turns[t]]
  /\ UNCHANGED <<nextStream, processorVars, now>>
  /\ UNCHANGED engineVars

\* joinChannel (lines 36-65), from the moment the connection is Ready: a new
\* player is created and subscribed, startListening registers the speaking
\* listeners of the new receiver.
joinChannel ==
  /\ connection = "none"
  /\ connection' = "ready"
  /\ player' = "idle"
  /\ isListening' = TRUE
  /\ UNCHANGED <<speaking, activeStreams, nextStream, turns>>
  /\ UNCHANGED <<processorVars, now>>
  /\ UNCHANGED engineVars

\* setVAD (part_003 lines 411-413)
setVAD(enabled) ==
  /\ vadEnabled' = enabled
  /\ UNCHANGED <<audioBuffer, lastAudioTime, isProcessing, now>>
  /\ UNCHANGED managerVars
  /\ UNCHANGED engineVars

(***************************************************************************)
(* Specifications                                                          *)
(***************************************************************************)
\* The engine as its constructor leaves it; no voice channel joined.
EngineInit ==
  /\ models = <<[type |-> "gemini", handle |-> 1]>>
  /\ backend = [h \in HandleIds |-> NewModel]
  /\ activeModel = NoHandle
  /\ persona = NoPersona
  /\ conversationHistory = [u \in Users |-> <<>>]
  /\ calls = [c \in CallIds |-> IdleCall]
  /\ started = 0
  /\ lastSwitch = NoSwitch
  /\ lastInit = NoInit

VoiceIdle ==
  /\ speaking = {}
  /\ activeStreams = [u \in Users |-> NoHandle]
  /\ nextStream = 1
  /\ turns = [t \in TurnIds |-> IdleTurn]
  /\ audioBuffer = <<>>
  /\ lastAudioTime = 0
  /\ isProcessing = FALSE
  /\ vadEnabled = TRUE
  /\ now = StartTime

Init ==
  /\ EngineInit
  /\ connection = "none"
  /\ player = "none"
  /\ isListening = FALSE
  /\ VoiceIdle

\* The engine under the text path: models are registered and initialized before
\* the first message, as main() does; messages, commands and service answers then
\* interleave freely.
Next ==
  \/ \E t \in Types : started = 0 /\ Len(models) < Cardinality(HandleIds)
                      /\ t \notin Registered /\ registerModel(t, Len(models) + 1)
  \/ \E config \in [Types -> ConfigChoices], d \in Types :
        started = 0 /\ lastInit = NoInit /\ initialize(config, d)
  \/ \E p \in Personas : persona = NoPersona /\ setPersona(p)
  \/ \E t \in Types : switchModel(t)
  \/ \E u \in Users : clearHistory(u)
  \/ \E u \in Users, msg \in Messages : started < MaxStarted /\ handleMessage(u, msg)
  \/ \E c \in CallIds, text \in Replies : ServiceSuccess(c, text)
  \/ \E c \in CallIds : ServiceRateLimited(c)
  \/ \E c \in CallIds : ServiceError(c)
  \/ \E c \in CallIds : handleMessageDone(c)

Spec == Init /\ [][Next]_vars

\* The engine once main() has initialized it: both models registered, each
\* initialized with MaxKeys credentials, the constructor's model active, the
\* persona set.
Running ==
  /\ models = <<[type |-> "gemini", handle |-> 1], [type |-> "openai", handle |-> 2]>>
  /\ backend = [h \in HandleIds |-> GeminiInitialize(NewModel, MaxKeys)]
  /\ activeModel = 1
  /\ persona \in Personas
  /\ conversationHistory = [u \in Users |-> <<>>]
  /\ calls = [c \in CallIds |-> IdleCall]
  /\ started = 0
  /\ lastSwitch = NoSwitch
  /\ lastInit = InitCall([t \in Types |-> MaxKeys], "gemini", "ok")

LiveInit ==
  /\ Running
  /\ connection = "none"
  /\ player = "none"
  /\ isListening = FALSE
  /\ VoiceIdle

LiveNext ==
  \/ \E u \in Users, msg \in Messages : started < MaxStarted /\ handleMessage(u, msg)
  \/ \E c \in CallIds, text \in Replies : ServiceSuccess(c, text)
  \/ \E c \in CallIds : ServiceRateLimited(c)
  \/ \E c \in CallIds : ServiceError(c)
  \/ \E c \in CallIds : handleMessageDone(c)

\* Every request to the generation service is answered, with a text or an error.
ServiceAnswers(c) ==
  \/ \E text \in Replies : ServiceSuccess(c, text)
  \/ ServiceRateLimited(c)
  \/ ServiceError(c)

LiveSpec ==
  /\ LiveInit
  /\ [][LiveNext]_vars
  /\ \A c \in CallIds : WF_vars(ServiceAnswers(c))

\* Messages of one user, two of them in flight at most, every one answered, with
\* the history cleared at will: enough calls for the history to reach its cap
\* and go beyond.
HistoryUsers == {"alice"}
HistoryCalls == 12

HistoryNext ==
  \/ \E u \in HistoryUsers, msg \in Messages :
        started < HistoryCalls /\ handleMessage(u, msg)
  \/ \E u \in HistoryUsers : clearHistory(u)
  \/ \E c \in CallIds, text \in Replies : ServiceSuccess(c, text)
  \/ \E c \in CallIds : handleMessageDone(c)

HistorySpec == LiveInit /\ [][HistoryNext]_vars

\* The voice path: the engine initialized, a voice channel joined, the player
\* created and the speaking listeners registered.
VoiceInit ==
  /\ Running
  /\ connection = "ready"
  /\ player = "idle"
  /\ isListening = TRUE
  /\ VoiceIdle

VoiceNext ==
  \/ \E u \in Users : handleUserSpeaking(u)
  \/ \E u \in Users : handleUserStoppedSpeaking(u)
  \/ \E t \in TurnIds, f \in Frames : Len(turns[t].heard) < VoiceFrames /\ Frame(t, f)
  \/ \E d \in Delays : Advance(d)
  \/ \E t \in TurnIds, text \in Transcripts : Transcript(t, text)
  \/ \E t \in TurnIds : DgError(t)
  \/ \E t \in TurnIds : DgClose(t)
  \/ \E t \in TurnIds : SpeechTimeout(t)
  \/ \E c \in CallIds, text \in Replies : ServiceSuccess(c, text)
  \/ \E c \in CallIds : ServiceError(c)
  \/ \E t \in TurnIds : TtsDone(t)
  \/ \E t \in TurnIds : TtsFailed(t)
  \/ PlayerIdle

VoiceSpec == VoiceInit /\ [][VoiceNext]_vars

\* One participant's speech: a single stream and its turn, with the frames, the
\* clock and the transcription service free, and no engine behind the turn.
SegmentInit ==
  /\ EngineInit
  /\ connection = "ready"
  /\ player = "idle"
  /\ isListening = TRUE
  /\ VoiceIdle

SegmentNext ==
  \/ handleUserSpeaking("alice")
  \/ handleUserStoppedSpeaking("alice")
  \/ \E t \in TurnIds, f \in Frames : Frame(t, f)
  \/ \E d \in Delays : Advance(d)
  \/ \E t \in TurnIds, text \in Transcripts : Transcript(t, text)
  \/ \E t \in TurnIds : DgError(t)
  \/ \E t \in TurnIds : DgClose(t)
  \/ \E t \in TurnIds : SpeechTimeout(t)

SegmentSpec == SegmentInit /\ [][SegmentNext]_vars

\* The voice path of one participant with the bot leaving and joining again
LeaveNext ==
  \/ handleUserSpeaking("alice")
  \/ handleUserStoppedSpeaking("alice")
  \/ \E t \in TurnIds, f \in Frames : Len(turns[t].heard) < VoiceFrames /\ Frame(t, f)
  \/ \E t \in TurnIds, text \in Transcripts : Transcript(t, text)
  \/ \E t \in TurnIds : DgError(t)
  \/ \E t \in TurnIds : DgClose(t)
  \/ \E c \in CallIds, text \in Replies : ServiceSuccess(c, text)
  \/ \E c \in CallIds : ServiceError(c)
  \/ \E t \in TurnIds : TtsDone(t)
  \/ \E t \in TurnIds : TtsFailed(t)
  \/ PlayerIdle
  \/ leaveChannel
  \/ joinChannel

LeaveSpec == VoiceInit /\ [][LeaveNext]_vars

\* detectSpeech on the frames of VadFrames, with VAD switched on and off: alice
\* has started and stopped speaking, her turn awaits its transcription, and the
\* transcription service stays silent.
VadInit ==
  /\ EngineInit
  /\ connection = "ready"
  /\ player = "idle"
  /\ isListening = TRUE
  /\ speaking = {}
  /\ activeStreams = [u \in Users |-> IF u = "alice" THEN 1 ELSE NoHandle]
  /\ nextStream = 2
  /\ turns = [t \in TurnIds |->
       IF t = 1
       THEN [IdleTurn EXCEPT !.pc = "stt", !.user = "alice", !.stream = 1, !.dg = "open",
                             !.timer = TRUE, !.startTime = StartTime]
       ELSE IdleTurn]
  /\ audioBuffer = <<>>
  /\ lastAudioTime = 0
  /\ isProcessing = TRUE
  /\ vadEnabled = TRUE
  /\ now = StartTime

VadNext ==
  \/ \E enabled \in BOOLEAN : setVAD(enabled)
  \/ \E t \in TurnIds, f \in VadFrames : Frame(t, f)

VadSpec == VadInit /\ [][VadNext]_vars

\* The backends alone: an engine whose models were initialized with one to
\* MaxKeys credentials each, and a service that answers with a text or throws
\* any of Errors.
BackendInit ==
  /\ models = <<[type |-> "gemini", handle |-> 1], [type |-> "openai", handle |-> 2]>>
  /\ backend \in [HandleIds -> {GeminiInitialize(NewModel, n) : n \in 1..MaxKeys}]
  /\ activeModel = 1
  /\ persona \in Personas
  /\ conversationHistory = [u \in Users |-> <<>>]
  /\ calls = [c \in CallIds |-> IdleCall]
  /\ started = 0
  /\ lastSwitch = NoSwitch
  /\ lastInit = InitCall([t \in Types |-> backend[HandleOf(t)].keys], "gemini", "ok")
  /\ connection = "none"
  /\ player = "none"
  /\ isListening = FALSE
  /\ VoiceIdle

BackendNext ==
  \/ \E u \in Users, msg \in Messages : started < MaxStarted /\ handleMessage(u, msg)
  \/ \E c \in CallIds, text \in Replies : ServiceSuccess(c, text)
  \/ \E c \in CallIds, error \in Errors : ServiceThrows(c, error)
  \/ \E c \in CallIds : handleMessageDone(c)

BackendSpec == BackendInit /\ [][BackendNext]_vars

\* The replies of the generation service drawn from EmotionTexts
EmotionNext ==
  \/ \E u \in Users, msg \in Messages : started < MaxStarted /\ handleMessage(u, msg)
  \/ \E c \in CallIds, text \in EmotionTexts : ServiceSuccess(c, text)
  \/ \E c \in CallIds : handleMessageDone(c)

EmotionSpec == BackendInit /\ [][EmotionNext]_vars

\* The program from its start: main() constructs the engine and awaits
\* initialize with the default model "gemini"; when that throws, the process
\* exits, else the bot is constructed and started, and only then are messages
\* and commands handled.
BotStarted == lastInit.result = "ok"

main(config) ==
  /\ lastInit = NoInit
  /\ initialize(config, "gemini")

MainNext ==
  \/ \E config \in [Types -> ConfigChoices] : main(config)
  \/ \E p \in Personas : BotStarted /\ persona = NoPersona /\ setPersona(p)
  \/ \E t \in Types : BotStarted /\ switchModel(t)
  \/ \E u \in Users, msg \in Messages :
        BotStarted /\ started < MaxStarted /\ handleMessage(u, msg)
  \/ \E c \in CallIds, text \in Replies : ServiceSuccess(c, text)
  \/ \E c \in CallIds : ServiceRateLimited(c)
  \/ \E c \in CallIds : ServiceError(c)
  \/ \E c \in CallIds : handleMessageDone(c)

MainSpec == Init /\ [][MainNext]_vars

(***************************************************************************)
(* Claims                                                                  *)
(***************************************************************************)
Range(q) == {q[i] : i \in 1..Len(q)}
AvailableHandles == {models[i].handle : i \in {j \in 1..Len(models) : isAvailable(models[j].handle)}}

\* C3 (as claimed): a call fails with "All AI models failed" only after every
\* registered model that reports available has been invoked by it.
C3_FallbackTriesEveryBackend ==
  \A c \in CallIds :
    (calls[c].pc = "done" /\ calls[c].result = "AllFailed")
      => AvailableHandles \subseteq Range(calls[c].invoked)

\* C4: when a fallback model answers, the call returns the answer of that model
\* and the model is the active model when the call returns; a call that starts
\* invokes the model that is active at that moment first.
C4_FailoverIsSticky ==
  [][ /\ \A c \in CallIds :
           (calls[c].pc = "fallback" /\ calls'[c].pc = "done" /\ calls'[c].result = "ok")
             => /\ calls'[c].cur = calls[c].cur
                /\ calls'[c].reply \in Replies
                /\ activeModel' = calls[c].cur
      /\ \A c \in CallIds :
           (calls[c].pc = "idle" /\ calls'[c].pc = "primary")
             => /\ calls'[c].invoked = <<activeModel>>
                /\ calls'[c].cur = activeModel ]_vars

\* C4 witness: a call has returned the answer of fallback model 2 after model 1
\* failed, and the next call is waiting for model 2, the active model.
C4_Witness ==
  \E c, d \in CallIds :
    /\ calls[c].pc = "done" /\ calls[c].result = "ok"
    /\ calls[c].invoked = <<1, 2>> /\ calls[c].cur = 2
    /\ calls[d].pc = "primary" /\ calls[d].seq > calls[c].seq
    /\ calls[d].cur = 2 /\ activeModel = 2

\* C5: a call that has invoked a model and fails, fails with "All AI models
\* failed"; the step in which it fails leaves the active model as it is, and no
\* step of a call changes the active model unless a fallback model answers in it.
C5_ExhaustedKeepsActive ==
  [][ /\ \A c \in CallIds :
           (Pending(c) /\ calls'[c].pc = "done" /\ calls'[c].result # "ok")
             => /\ calls'[c].result = "AllFailed"
                /\ activeModel' = activeModel
      /\ (calls' # calls /\ activeModel' # activeModel)
           => \E c \in CallIds :
                 calls[c].pc = "fallback" /\ calls'[c].pc = "done" /\ calls'[c].result = "ok" ]_vars

\* C5 witness: a call has failed after both models failed, and the active model
\* is still the one it invoked first.
C5_Witness ==
  \E c \in CallIds :
    /\ calls[c].pc = "done" /\ calls[c].result = "AllFailed"
    /\ calls[c].invoked = <<1, 2>> /\ activeModel = 1

\* C6 (as claimed): one Generate request makes at most two attempts against the
\* service (one rotation, one retry).
C6_AtMostTwoAttempts ==
  \A c \in CallIds : calls[c].attempts <= 2

\* C9: a history changes only in a step in which a call of its user gets its
\* answer, and then the pair (prompt of the call, reply of the call) is appended
\* (C8 covers the cap), or by clearHistory; a call that fails leaves every
\* history as it is.
AppendedPair(c) ==
  conversationHistory[calls[c].user]
    \o <<Entry("User", calls[c].message, calls[c].seq),
         Entry("Assistant", calls'[c].reply, calls[c].seq)>>

C9_HistoryChangesOnSuccessOnly ==
  [][ /\ \A u \in Users :
           conversationHistory'[u] # conversationHistory[u]
             => \/ calls' = calls /\ conversationHistory'[u] = <<>>
                \/ \E c \in CallIds :
                      /\ Pending(c) /\ calls[c].user = u
                      /\ calls'[c].pc = "done" /\ calls'[c].result = "ok"
                      /\ Len(AppendedPair(c)) <= 2 * maxHistoryPairs
                           => conversationHistory'[u] = AppendedPair(c)
                      /\ \A v \in Users \ {u} :
                            conversationHistory'[v] = conversationHistory[v]
      /\ \A c \in CallIds :
           (calls[c].pc # "done" /\ calls'[c].pc = "done" /\ calls'[c].result # "ok")
             => conversationHistory' = conversationHistory ]_vars

\* C9 witness: a call of alice has returned, her history is its pair, and a call
\* of bob has failed and left his history empty.
C9_Witness ==
  \E c, d \in CallIds :
    /\ calls[c].pc = "done" /\ calls[c].result = "ok" /\ calls[c].user = "alice"
    /\ conversationHistory["alice"] =
         <<Entry("User", calls[c].message, calls[c].seq),
           Entry("Assistant", calls[c].reply, calls[c].seq)>>
    /\ calls[d].pc = "done" /\ calls[d].result = "AllFailed" /\ calls[d].user = "bob"
    /\ conversationHistory["bob"] = <<>>

\* C10 (as claimed): no two calls of one user are in flight together, and the
\* pairs of a history are in the order in which their calls were started.
C10_GenerationIsSerialized ==
  /\ \A c, d \in CallIds :
        (c # d /\ Pending(c) /\ Pending(d)) => calls[c].user # calls[d].user
  /\ \A u \in Users : \A i, j \in 1..Len(conversationHistory[u]) :
        i < j => conversationHistory[u][i].call <= conversationHistory[u][j].call

\* C7 (as claimed): every generateResponse call that is waiting for the service
\* eventually returns or throws, given that the service answers every request.
C7_EveryCallReturns ==
  \A c \in CallIds : Pending(c) ~> ~Pending(c)

\* C8: no history is ever longer than 2 * maxHistoryPairs entries, and a step
\* that evicts removes exactly the two oldest entries, the user entry and the
\* assistant entry of one call.
Evicts(u) ==
  /\ conversationHistory'[u] # conversationHistory[u]
  /\ conversationHistory'[u] # <<>>
  /\ Len(conversationHistory'[u]) < Len(conversationHistory[u]) + 2

C8_HistoryBoundedEvictsPairs ==
  [][ \A u \in Users :
        /\ Len(conversationHistory'[u]) <= 2 * maxHistoryPairs
        /\ Evicts(u) =>
             /\ Len(conversationHistory[u]) = 2 * maxHistoryPairs
             /\ Len(conversationHistory'[u]) = 2 * maxHistoryPairs
             /\ \A i \in 1..(2 * maxHistoryPairs - 2) :
                   conversationHistory'[u][i] = conversationHistory[u][i + 2]
             /\ conversationHistory[u][1].role = "User"
             /\ conversationHistory[u][2].role = "Assistant"
             /\ conversationHistory[u][1].call = conversationHistory[u][2].call ]_vars

\* C8 witness: a history at its cap whose oldest pair has been evicted
C8_Witness ==
  \E u \in Users :
    /\ Len(conversationHistory[u]) = 2 * maxHistoryPairs
    /\ conversationHistory[u][1].call > 1
    /\ conversationHistory[u][2 * maxHistoryPairs].call
         >= conversationHistory[u][1].call + maxHistoryPairs - 1


\* C1: for every participant at most one turn pipeline is in flight at any
\* time: no two activations of handleUserStoppedSpeaking that have started and
\* not yet left the pipeline belong to the same participant.
C1_OneTurnPerParticipant ==
  \A t1, t2 \in TurnIds :
    (t1 # t2 /\ InFlight(t1) /\ InFlight(t2)) => turns[t1].user # turns[t2].user

\* C2: turns of different participants are independent: while a participant's
\* turn is being transcribed, every frame in the buffer that serves the turn was
\* delivered by that participant's own stream.
C2_NoForeignFrames ==
  \A t \in TurnIds :
    turns[t].pc = "stt" =>
      \A i \in DOMAIN audioBuffer : audioBuffer[i].from = turns[t].user


\* A step that is a switchModel call; a step that is an initialize call
SwitchStep == calls' = calls /\ lastSwitch' # lastSwitch
InitStep == lastInit' # lastInit

\* C11 (as claimed): when switchModel returns true the model it names is the
\* active model, and a generateResponse call that was in flight when the switch
\* returned never moves the active model away from it.
C11_SwitchIsLasting ==
  [][ /\ (SwitchStep /\ lastSwitch'.success)
         => activeModel' = HandleOf(lastSwitch'.type)
      /\ \A c \in CallIds :
           ( /\ Pending(c)
             /\ lastSwitch.success
             /\ activeModel = HandleOf(lastSwitch.type)
             /\ calls[c].seq <= lastSwitch.at )
           => activeModel' = activeModel \/ SwitchStep ]_vars

\* C12: switchModel for a type that is unregistered, uninitialized or without
\* credentials returns false, and the active model and what getActiveModel
\* reports are the same after the call as before.
C12_FailedSwitchKeepsActive ==
  [][ SwitchStep =>
        LET h == HandleOf(lastSwitch'.type)
        IN  /\ (h = NoHandle \/ backend[h].client = NoHandle \/ backend[h].keys = 0)
               => ~lastSwitch'.success
            /\ ~lastSwitch'.success
               => activeModel' = activeModel /\ getActiveModel' = getActiveModel ]_vars

\* C12 witness: a switch to "openai", registered but never initialized, has
\* returned false and model 1 is still the active model.
C12_Witness ==
  /\ lastSwitch.type = "openai" /\ ~lastSwitch.success
  /\ "openai" \in Registered /\ backend[HandleOf("openai")].keys = 0
  /\ activeModel = 1 /\ getActiveModel = "gemini"

C14_DefaultMustBeAvailable ==
  [][ /\ InitStep =>
           LET dflt == HandleOf(lastInit'.default)
               usable == /\ dflt # NoHandle
                         /\ backend'[dflt].client # NoHandle
                         /\ backend'[dflt].keys > 0
           IN  /\ lastInit'.result = "ok" => usable /\ activeModel' = dflt
               /\ (~usable /\ lastInit'.result # "InitFailed")
                    => lastInit'.result = "NoDefault" /\ activeModel' = activeModel
      /\ lastInit'.result # "ok" => started' = 0 /\ \A c \in CallIds : calls'[c] = IdleCall
    ]_vars

\* C14 witness: main's initialize has failed for want of an available default
\* model (no configuration for "gemini"); no model is active, nothing was handled.
C14_Witness ==
  /\ lastInit.result = "NoDefault" /\ lastInit.default = "gemini"
  /\ activeModel = NoHandle /\ started = 0


\* C15: the cursor of an initialized model is a valid index into its
\* credentials, which are not empty, and a model configured with no credentials
\* never reports available.
C15_CursorIsValid ==
  /\ \A h \in HandleIds :
        /\ backend[h] # NewModel => backend[h].keys > 0
        /\ backend[h].keys > 0 => backend[h].idx \in 0..(backend[h].keys - 1)
        /\ isAvailable(h) => backend[h].keys > 0
  /\ \A t \in Registered : lastInit.config[t] = 0 => ~isAvailable(HandleOf(t))

\* C15 witness: a model configured with no credentials is not available, and the
\* cursor of an initialized model has wrapped around to 0 under rate-limit errors.
C15_Witness ==
  /\ \E t \in Registered : lastInit.config[t] = 0 /\ ~isAvailable(HandleOf(t))
  /\ \E c \in CallIds :
        /\ Pending(c) /\ calls[c].attempts >= 2
        /\ backend[calls[c].cur].keys = MaxKeys /\ backend[calls[c].cur].idx = 0

\* A step in which the service throws at the pending request of call c
ThrowStep(c) ==
  /\ Pending(c)
  /\ calls'[c] # calls[c]
  /\ ~(calls'[c].pc = "done" /\ calls'[c].result = "ok")

\* C16: an error that is not a rate-limit error (no "quota", no "rate limit" in
\* its message, or not an Error) is surfaced at once: the engine goes on to its
\* next model or fails, and cursor, client and usage counters of every model
\* are as they were.
C16_OtherErrorsSurface ==
  [][ \A c \in CallIds :
        ( /\ ThrowStep(c)
          /\ \/ ~calls'[c].error.isError
             \/ /\ ~includes(toLowerCase(calls'[c].error.message), <<"quota">>)
                /\ ~includes(toLowerCase(calls'[c].error.message), <<"rate", "limit">>) )
        => /\ backend' = backend
           /\ \/ calls'[c].pc = "done" /\ calls'[c].result = "AllFailed"
              \/ /\ calls'[c].pc = "fallback" /\ calls'[c].attempts = 1
                 /\ calls'[c].pos > (IF calls[c].pc = "primary" THEN 0 ELSE calls[c].pos)
    ]_vars

\* C16 witness: after a request that returned text (its usage counted), a thrown
\* value that is not an Error, though it reads "quota", has made a call go on to
\* its fallback model with the cursor of the first model where initialize put it.
C16_Witness ==
  \E c \in CallIds :
    /\ calls[c].pc = "fallback" /\ calls[c].error = ThrownText
    /\ calls[c].invoked = <<1, 2>>
    /\ backend[1].requests = 1 /\ backend[1].tokens = 1
    /\ backend[1].idx = 1 % backend[1].keys

\* k rotations of a model
RECURSIVE Rotated(_, _)
Rotated(b, n) == IF n = 0 THEN b ELSE rotateApiKey(Rotated(b, n - 1))

\* A step that rotates the cursor of model h
RotationStep(h) ==
  /\ lastInit' = lastInit
  /\ backend'[h] # backend[h]
  /\ backend'[h].requests = backend[h].requests

\* Rotation as a function of the model, in every state that is reached
RoundRobin ==
  \A h \in HandleIds :
    backend[h].keys > 0 =>
      LET b == backend[h]
          k == b.keys
      IN  /\ b.client = b.idx + 1
          /\ Rotated(b, 1).idx = (b.idx + 1) % k
          /\ Rotated(b, k).idx = b.idx
          /\ {Rotated(b, j).idx : j \in 1..k} = 0..(k - 1)
          /\ \A j \in 1..k : Rotated(b, j).client = Rotated(b, j).idx + 1

\* C17: rotation is round-robin: a rotation moves the cursor of a model with k
\* credentials from i to (i + 1) mod k and the client of the next request is
\* built from the credential at the new cursor; k rotations select every
\* credential once and bring the cursor back.
C17_RotationIsRoundRobin ==
  /\ []RoundRobin
  /\ [][ \A h \in HandleIds :
           RotationStep(h) =>
             /\ backend'[h].keys = backend[h].keys
             /\ backend'[h].idx = (backend[h].idx + 1) % backend[h].keys
             /\ backend'[h].client = backend'[h].idx + 1 ]_vars

\* C17 witness: a model with MaxKeys credentials has been rotated MaxKeys times
\* within one request and its cursor is back where initialize put it.
C17_Witness ==
  \E c \in CallIds :
    /\ Pending(c) /\ calls[c].attempts = MaxKeys + 1
    /\ backend[calls[c].cur].keys = MaxKeys
    /\ backend[calls[c].cur].idx = 1 % MaxKeys
    /\ backend[calls[c].cur].client = backend[calls[c].cur].idx + 1

\* C18: after speech and a silence longer than the threshold the end of the turn
\* is signalled to the transcription connection exactly once, not once for every
\* silent frame of the run: no turn has called finish() more than once.
C18_EndOfTurnSignalledOnce ==
  \A t \in TurnIds : turns[t].finishCalls <= 1

\* heard[j] is a silent frame between the speech frames heard[i] and heard[k],
\* which are less than the silence threshold apart
ShortSilence(heard, i, j, k) ==
  /\ i < j /\ j < k
  /\ detectSpeech(heard[i].data) /\ detectSpeech(heard[k].data)
  /\ \A n \in (i + 1)..(k - 1) : ~detectSpeech(heard[n].data)
  /\ heard[k].timestamp - heard[i].timestamp < silenceThreshold

\* C19: the silent frames of a pause shorter than the silence threshold between
\* speech frames belong to the audio of the turn: each is in the buffer and was
\* delivered to the transcription connection with the speech around it.
C19_ShortSilenceIsKept ==
  \A t \in TurnIds :
    LET heard == turns[t].heard
    IN  \A i, j, k \in 1..Len(heard) :
          ShortSilence(heard, i, j, k) =>
            /\ heard[j] \in Range(turns[t].sent)
            /\ \E n \in 1..Len(audioBuffer) :
                  /\ audioBuffer[n].data = heard[j].data
                  /\ audioBuffer[n].timestamp = heard[j].timestamp

\* The turn has gone on past its timer: the timer has run, the turn still awaits
\* its transcription, and its frames began before the cap and reach beyond it.
PastTheCap(turn) ==
  /\ turn.pc = "stt"
  /\ ~turn.timer
  /\ \E m, n \in 1..Len(turn.heard) :
       /\ turn.heard[m].timestamp < turn.startTime + speechTimeout
       /\ turn.heard[n].timestamp >= turn.startTime + speechTimeout

\* C20: a stream of speech frames that lasts longer than the cap of speechTimeout
\* ends the turn at the cap: no turn that heard speech only is still awaiting its
\* transcription, with frames arriving, after its timer has run.
C20_SpeechEndsAtTheCap ==
  \A t \in TurnIds :
    (\A n \in 1..Len(turns[t].heard) : detectSpeech(turns[t].heard[n].data))
      => ~PastTheCap(turns[t])

\* Turn t has begun and has heard no frame yet, and every other activation has
\* ended: the next frame is the first of a new turn.
NewTurn(t) ==
  /\ turns[t].pc = "stt"
  /\ turns[t].heard = <<>>
  /\ \A o \in TurnIds \ {t} : turns[o].pc = "idle"

\* C21: the buffer is empty when a new turn begins: once the turns before it
\* have ended, none of their frames is in the buffer when the first frame of the
\* new turn is processed.
C21_NewTurnFindsBufferEmpty ==
  \A t \in TurnIds : NewTurn(t) => audioBuffer = <<>>

\* C22: a transcription is settled no later than the moment its timer fires: a
\* turn that still awaits its transcription has its timer still ahead of it.
C22_SettledWhenTimerFires ==
  \A t \in TurnIds : turns[t].pc = "stt" => turns[t].timer

\* The stages of processVoiceInteraction and handleUserStoppedSpeaking in the
\* order of their awaits; from each the turn may also end.
StageOrder ==
  {<<"idle", "stt">>, <<"stt", "gen">>, <<"gen", "tts">>, <<"tts", "play">>,
   <<"stt", "idle">>, <<"gen", "idle">>, <<"tts", "idle">>, <<"play", "idle">>}

\* The activations of generateResponse made for turn t
CallsOf(t) == {c \in CallIds : calls[c].pc # "idle" /\ calls[c].origin = t}

\* In every state: generateResponse runs for a turn only while that turn is in
\* its generation stage, once, for the turn's user and with a text.
OneGenerationPerTurn ==
  \A t \in TurnIds :
    /\ CallsOf(t) # {} => turns[t].pc = "gen"
    /\ Cardinality(CallsOf(t)) <= 1
    /\ \A c \in CallsOf(t) : calls[c].user = turns[t].user /\ calls[c].message # <<>>

\* C23: within one turn the stages run in the order transcription, generation,
\* synthesis, playback, each at most once: a turn moves along StageOrder only,
\* generation starts from a transcription with text, and synthesis starts in the
\* step in which generateResponse returned a reply (the step that added the
\* exchange to the history of the turn's user).
C23_StagesRunInOrder ==
  /\ []OneGenerationPerTurn
  /\ [][\A t \in TurnIds :
         /\ turns'[t].pc # turns[t].pc => <<turns[t].pc, turns'[t].pc>> \in StageOrder
         /\ turns[t].pc = "stt" /\ turns'[t].pc = "gen" =>
              /\ turns[t].hasReceivedData
              /\ Trim(turns[t].transcription) # <<>>
              /\ \E c \in CallIds : /\ calls[c].pc = "idle"
                                    /\ calls'[c].origin = t
                                    /\ calls'[c].message = Trim(turns[t].transcription)
         /\ turns[t].pc = "gen" /\ turns'[t].pc = "tts" =>
              /\ CallsOf(t) # {}
              /\ conversationHistory'[turns[t].user] # conversationHistory[turns[t].user]
         /\ turns'[t].pc = "play" /\ turns[t].pc # "play" => player' = "playing"]_vars

\* A turn has passed through every stage and its reply is playing
C23_Witness ==
  \E t \in TurnIds : turns[t].pc = "play" /\ player = "playing"

\* C24: a transcription that yields no speech or empty text aborts the turn: no
\* turn is left awaiting a transcription that has yielded no text, with its
\* connection closed and its timer spent.
C24_EmptyTranscriptionAborts ==
  \A t \in TurnIds :
    ~(/\ turns[t].pc = "stt"
      /\ turns[t].dg = "closed"
      /\ ~turns[t].timer
      /\ Trim(turns[t].transcription) = <<>>)

\* The turns that end in the step
Ending == {t \in TurnIds : InFlight(t) /\ turns'[t].pc = "idle"}

\* C25: a stage's failure ends the turn and nothing else: listening goes on, and
\* the stream entry that is removed is the one of the ended turn, so that an
\* utterance the participant has begun since is still processed as a new turn.
C25_FailureRemovesItsOwnEntry ==
  [][Ending # {} =>
       /\ isListening' = isListening
       /\ \A u \in Users :
            activeStreams'[u] # activeStreams[u] =>
              \E t \in Ending : turns[t].user = u /\ turns[t].stream = activeStreams[u]]_vars

\* C26: playback is serialized: a reply is started on the player only when the
\* player is not playing another one.
C26_PlaybackIsSerialized ==
  [][\A t \in TurnIds :
       turns[t].pc # "play" /\ turns'[t].pc = "play" => player # "playing"]_vars

\* Turn t was in flight when the bot left the channel
Left(t) == InFlight(t) /\ turns[t].stream = NoHandle

\* C27: leaving cancels the turns in flight: such a turn starts no generation,
\* adds nothing to the history of its participant and plays nothing, whether or
\* not the bot has joined again; and the leave discards the buffered frames.
C27_LeaveCancelsTurns ==
  [][/\ \A t \in TurnIds :
          Left(t) /\ turns'[t].pc # turns[t].pc =>
            /\ turns'[t].pc \notin {"gen", "play"}
            /\ conversationHistory'[turns[t].user] = conversationHistory[turns[t].user]
     /\ connection # "none" /\ connection' = "none" => audioBuffer' = <<>>]_vars

\* The 16-bit little-endian samples of a frame of whole samples
RECURSIVE SamplesOf(_)
SamplesOf(f) ==
  IF f = <<>> THEN <<>>
  ELSE LET u == f[1] + 256 * f[2]
       IN  <<IF u < 32768 THEN u ELSE u - 65536>> \o SamplesOf(SubSeq(f, 3, Len(f)))

RECURSIVE SumOfSquares(_)
SumOfSquares(samples) ==
  IF samples = <<>> THEN 0
  ELSE Head(samples) * Head(samples) + SumOfSquares(Tail(samples))

\* The step in which the vadStream of turn t transforms a frame
FrameStep(t) == InFlight(t) /\ Len(turns'[t].heard) = Len(turns[t].heard) + 1

\* The frame of that step
FrameOf(t) == turns'[t].heard[Len(turns'[t].heard)].data

\* C28: a frame of whole samples is taken for speech (pushed and sent) exactly
\* if VAD is disabled or the sum of its squared samples exceeds 1000 * 1000
\* times the number of samples; the verdict changes no setting.
C28_SpeechIffRmsExceeds ==
  [][\A t \in TurnIds :
       FrameStep(t) /\ Len(FrameOf(t)) % 2 = 0 =>
         /\ turns'[t].sent # turns[t].sent <=>
              \/ ~vadEnabled
              \/ SumOfSquares(SamplesOf(FrameOf(t))) >
                   1000 * 1000 * Len(SamplesOf(FrameOf(t)))
         /\ turns'[t].sent # turns[t].sent <=> audioBuffer' # audioBuffer
         /\ vadEnabled' = vadEnabled]_vars

\* Frames at, above and below the threshold were judged with VAD enabled
C28_Witness ==
  \E t \in TurnIds :
    /\ Len(turns[t].heard) = 3
    /\ turns[t].heard[1].data = <<232, 3>> /\ turns[t].sent = <<turns[t].heard[2]>>
    /\ turns[t].heard[2].data = <<233, 3>>
    /\ turns[t].heard[3].data = <<255, 255>>

\* C29: detectSpeech has no error outcome: no frame puts a vadStream into an
\* error state.
C29_NoErrorOutcome ==
  \A t \in TurnIds : turns[t].vad = "ok"

\* The occurrences in text, whatever their case, of the keywords of entry k
Hits(k, text) ==
  Cardinality({i \in 1..Len(text) :
                 \E n \in 1..Len(emotions[k].keywords) :
                    toLowerCase(text)[i] = emotions[k].keywords[n]})

\* Entry k has the highest count, and no entry declared before it has as many
Wins(k, text) ==
  /\ \A j \in 1..Len(emotions) : Hits(j, text) <= Hits(k, text)
  /\ \A j \in 1..(k - 1) : Hits(j, text) < Hits(k, text)

\* C30: the emotional annotation of every reply is the emotion with the most
\* keyword occurrences, the one declared first among equals and neutral when
\* there is none; its intensity is min(hits / 5, 1), its confidence 0.7; a reply
\* with "happy" once and no other keyword is happy with a positive intensity.
C30_EmotionIsTheMostFrequent ==
  \A c \in CallIds :
    calls[c].pc = "done" /\ calls[c].result = "ok" =>
      LET text == calls[c].reply
          r == calls[c].emotional_response
      IN  /\ \E k \in 1..Len(emotions) :
                /\ Wins(k, text)
                /\ r.emotion = IF Hits(k, text) = 0 THEN "neutral" ELSE emotions[k].emotion
                /\ r.intensity = IF Hits(k, text) < 5 THEN Hits(k, text) ELSE 5
          /\ r.confidence = 7
          /\ (Hits(1, text) = 1 /\ \A k \in 2..Len(emotions) : Hits(k, text) = 0) =>
                (r.emotion = "happy" /\ r.intensity > 0)

\* A reply in which sad and happy occur once each was annotated
C30_Witness ==
  \E c \in CallIds :
    /\ calls[c].pc = "done" /\ calls[c].result = "ok"
    /\ calls[c].reply = <<"sad", "happy">>
    /\ calls[c].emotional_response.emotion = "happy"

\* The last two entries of a history
LastPair(history) == SubSeq(history, Len(history) - 1, Len(history))

\* C31: the context a call passes to the backends it invokes is the persona
\* preamble followed by the history its participant has when the call is made,
\* the same for every backend the call goes on to, with the call's text as the
\* prompt; and a call that succeeds with reply r leaves (text, r) as the last two
\* entries of that history, which is what the next call will pass.
C31_ContextIsPreambleAndHistory ==
  [][\A c \in CallIds :
       /\ calls[c].pc = "idle" /\ calls'[c].pc \in {"primary", "fallback"} =>
            /\ calls'[c].context =
                 Preamble(persona) \o conversationHistory[calls'[c].user]
            /\ calls'[c].message \in Messages
       /\ Pending(c) /\ calls'[c].pc \in {"primary", "fallback"} =>
            /\ calls'[c].context = calls[c].context
            /\ calls'[c].message = calls[c].message
            /\ calls'[c].user = calls[c].user
       /\ Pending(c) /\ calls'[c].pc = "done" /\ calls'[c].result = "ok" =>
            /\ Len(conversationHistory'[calls[c].user]) >= 2
            /\ LastPair(conversationHistory'[calls[c].user]) =
                 <<Entry("User", calls[c].message, calls[c].seq),
                   Entry("Assistant", calls'[c].reply, calls[c].seq)>>]_vars

\* A call is waiting for a fallback model with a context that ends with the pair
\* of an earlier call of its participant
C31_Witness ==
  \E c \in CallIds :
    /\ calls[c].pc = "fallback"
    /\ Len(calls[c].context) = 4
    /\ calls[c].context[3].role = "User" /\ calls[c].context[3].text \in Messages
    /\ calls[c].context[4].role = "Assistant" /\ calls[c].context[4].text \in Replies

(***************************************************************************)
(* The engine's public operations in any order: registerModel for a new or *)
(* a registered type, initialize and switchModel at any time, among the    *)
(* calls of the text path.  A model object is registered under one type.   *)
(***************************************************************************)
\* generateResponse calls made among them
RegistryCalls == 1

FreeFor(type, h) == \A i \in 1..Len(models) : models[i].handle = h => models[i].type = type

RegistryNext ==
  \/ \E t \in Types, h \in HandleIds : FreeFor(t, h) /\ registerModel(t, h)
  \/ \E config \in [Types -> ConfigChoices], d \in Types : initialize(config, d)
  \/ \E p \in Personas : persona = NoPersona /\ setPersona(p)
  \/ \E t \in Types : switchModel(t)
  \/ \E u \in HistoryUsers, msg \in Messages :
        started < RegistryCalls /\ handleMessage(u, msg)
  \/ \E c \in CallIds, text \in Replies : ServiceSuccess(c, text)
  \/ \E c \in CallIds : ServiceError(c)
  \/ \E c \in CallIds : handleMessageDone(c)

RegistrySpec == Init /\ [][RegistryNext]_vars

\* A registerModel call: the only operation that writes the registry
RegisterStep == models' # models

\* C32: a registerModel call changes the registry entry of one type only; the
\* active model, the persona, every history and the other types' entries are as
\* before, whether the type was registered already or not.
C32_RegisterChangesOneEntry ==
  [][RegisterStep =>
       /\ activeModel' = activeModel
       /\ persona' = persona
       /\ conversationHistory' = conversationHistory
       /\ backend' = backend
       /\ \E t \in Types : \A other \in Types \ {t} : HandleOf(other)' = HandleOf(other)]_vars

\* The default type of a successful initialize has been registered again with
\* another model object, and the active model is still the one initialize chose
C32_Witness ==
  /\ lastInit.result = "ok"
  /\ lastSwitch = NoSwitch
  /\ started = 0
  /\ HandleOf(lastInit.default) # NoHandle
  /\ HandleOf(lastInit.default) # activeModel
  /\ activeModel # NoHandle

\* C35: after an initialize call that succeeded, the active model is set, is the
\* model object the registry holds under some type, and reports available.
C35_ActiveIsRegisteredAndAvailable ==
  lastInit.result = "ok" =>
    /\ activeModel # NoHandle
    /\ \E i \in 1..Len(models) : models[i].handle = activeModel
    /\ isAvailable(activeModel)

\* A clearHistory call for u that had something to discard
ClearStep(u) == conversationHistory[u] # <<>> /\ conversationHistory'[u] = <<>>

\* C33: clearHistory(p) empties the history of p and leaves the other histories,
\* the active model and the persona as they were; a call made for p while its
\* history is empty passes the preamble alone; and no step of a generateResponse
\* call for p changes the history of another participant.
C33_HistoriesArePartitioned ==
  [][/\ \A u \in Users :
          ClearStep(u) =>
            /\ \A q \in Users \ {u} : conversationHistory'[q] = conversationHistory[q]
            /\ activeModel' = activeModel
            /\ persona' = persona
     /\ \A c \in CallIds :
          /\ calls[c].pc = "idle" /\ calls'[c].pc \in {"primary", "fallback"}
               /\ conversationHistory[calls'[c].user] = <<>> =>
                 calls'[c].context = Preamble(persona)
          /\ calls'[c] # calls[c] =>
               \A q \in Users \ {calls[c].user, calls'[c].user} :
                 conversationHistory'[q] = conversationHistory[q]]_vars

\* A participant whose call has succeeded has an empty history again while the
\* other participant keeps an exchange
C33_Witness ==
  \E c \in CallIds, q \in Users :
    /\ calls[c].pc = "done" /\ calls[c].result = "ok"
    /\ conversationHistory[calls[c].user] = <<>>
    /\ q # calls[c].user
    /\ Len(conversationHistory[q]) = 2

\* The entries of a history are pairs: a user entry at every odd place, followed
\* by the assistant entry that the same call wrote
Paired(history) ==
  /\ Len(history) % 2 = 0
  /\ \A i \in 1..Len(history) :
       IF i % 2 = 1
       THEN /\ history[i].role = "User"
            /\ history[i + 1].role = "Assistant"
            /\ history[i + 1].call = history[i].call
       ELSE history[i].role = "Assistant"

\* C34: every history has an even number of entries, which alternate between
\* user and assistant starting with a user entry, and the two entries of a pair
\* are next to each other and were written by the same generateResponse call.
C34_HistoryIsPairs ==
  \A u \in Users : Paired(conversationHistory[u])

\* Two calls of one participant overlapped and the one started later was
\* answered first: its pair stands before the other's
C34_Witness ==
  \E u \in Users :
    /\ Len(conversationHistory[u]) >= 4
    /\ \E i \in 1..(Len(conversationHistory[u]) - 2) :
         conversationHistory[u][i].call > conversationHistory[u][i + 2].call

\* The turn is inside processVoiceInteraction: it awaits the transcription, the
\* reply or the synthesis (playback comes after its finally)
Interacting(t) == turns[t].pc \in {"stt", "gen", "tts"}

\* C36: isCurrentlyProcessing() returns true whenever a processVoiceInteraction
\* call is in flight, and false only when none is.
C36_ProcessingWhileAnyInFlight ==
  isProcessing <=> \E t \in TurnIds : Interacting(t)

\* C37: the stream entry of a participant belongs to the participant's most
\* recent speech start: from that start until the speech ends no step removes or
\* replaces the entry (the end of an earlier turn of the participant included),
\* so that the speech end finds the stream.
C37_EntryIsTheLatestStart ==
  [][\A u \in Users :
       u \in speaking /\ u \in speaking' /\ isListening' =>
         activeStreams'[u] = activeStreams[u]]_vars

(***************************************************************************)
(* The VoiceProcessor that transcribes with Google Speech (lines 1-210):   *)
(* its vadStream hands what it passes on to the next stream of the pipe,   *)
(* the recognizer.  sent lists the frames the recognizer has received.     *)
(***************************************************************************)
\* Buffer.concat(this.audioBuffer.map((chunk) => chunk.data)): the data of the
\* buffered chunks one after the other, each as the frame it was heard as
Concat(buffer) ==
  [i \in 1..Len(buffer) |-> [data |-> buffer[i].data, timestamp |-> buffer[i].timestamp]]

\* The transform of the vadStream (lines 77-109) on frame f of turn t
GoogleFrame(t, f) ==
  /\ turns[t].pc = "stt"
  /\ turns[t].stream # NoHandle
  /\ turns[t].vad = "ok"
  /\ Len(turns[t].heard) < MaxHeard
  /\ IF detectSpeechThrows(f)
     THEN /\ turns' = [turns EXCEPT ![t].heard = Append(@, Heard(f)),   \* callback(error)
                                    ![t].vad = "errored"]
          /\ UNCHANGED <<audioBuffer, lastAudioTime>>
     ELSE IF detectSpeech(f)
     THEN /\ Len(audioBuffer) < MaxBuffer
          /\ lastAudioTime' = now
          /\ audioBuffer' = Append(audioBuffer, Chunk(f, turns[t].user))
          /\ turns' = [turns EXCEPT ![t].heard = Append(@, Heard(f)),
                                    ![t].sent = Append(@, Heard(f))]       \* callback(null, chunk)
     ELSE IF now - lastAudioTime > silenceThreshold /\ Len(audioBuffer) > 0
     THEN /\ audioBuffer' = <<>>
          /\ turns' = [turns EXCEPT ![t].heard = Append(@, Heard(f)),
                                    ![t].sent = @ \o Concat(audioBuffer)]  \* callback(null, combinedBuffer)
          /\ UNCHANGED lastAudioTime
     ELSE /\ turns' = [turns EXCEPT ![t].heard = Append(@, Heard(f))]    \* callback()
          /\ UNCHANGED <<audioBuffer, lastAudioTime>>
  /\ UNCHANGED <<connection, player, isListening, speaking, activeStreams, nextStream>>
  /\ UNCHANGED <<isProcessing, vadEnabled, now>>
  /\ UNCHANGED engineVars

\* One turn awaiting its transcription, its frames and the clock free
GoogleNext ==
  \/ \E t \in TurnIds, f \in VadFrames : GoogleFrame(t, f)
  \/ \E d \in Delays : Advance(d)

GoogleSpec == VadInit /\ [][GoogleNext]_vars

\* The speech frames among the frames heard, in order
SpeechOf(heard) == SelectSeq(heard, LAMBDA h : detectSpeech(h.data))

\* C38: with Google Speech, the recognizer receives every speech frame of a turn
\* exactly once and in the order heard: what was sent is the speech frames heard,
\* none twice, a flush of the buffer after a silence included.
C38_SpeechDeliveredOnce ==
  \A t \in TurnIds : turns[t].sent = SpeechOf(turns[t].heard)

\* The transcription connection of turn t closes while the turn awaits it
CloseStep(t) ==
  /\ turns[t].pc = "stt"
  /\ turns[t].dg # "closed"
  /\ turns'[t].dg = "closed"

\* C39: with Deepgram, the close of the connection settles the transcription
\* that is awaited, whatever transcripts came before it (blank ones included):
\* the turn goes on with its text or is rejected, and is not left waiting.
C39_CloseSettles ==
  [][\A t \in TurnIds : CloseStep(t) => turns'[t].pc # "stt"]_vars

====
